---- MODULE Spec2Model ----
(***************************************************************************)
(* Model of cliupdater (src/cliupdater.go): the Updater configuration, the *)
(* check gate MaybeCheckForUpdate and the install sequence Update, over a  *)
(* small file system with inodes (hard links, rename, open file handles).  *)
(* Durations and times are whole hours.                                    *)
(***************************************************************************)
EXTENDS Integers, Sequences, FiniteSets, TLC

VARIABLES
    u,        \* the Updater fields: BaseURL, Path, CheckInterval, ApplyArgs
    runtime,  \* runtime.GOOS / runtime.GOARCH of the build
    now,      \* the wall clock (time.Now), in hours
    dir,      \* directory entries: path -> inode number, 0 when absent
    inodes,   \* inode number -> [data, mtime]
    stamp,    \* the .check stamp file: [exists, mtime]
    ioFaults, \* whether the file and network operations of Update may fail in this run
    remote,   \* the artifact published at the download URL: [version, modified]
    pc,       \* per process: position inside Update ("idle" between calls)
    fd,       \* per process: inode of the open .download handle f, 0 when closed
    off,      \* per process: file offset of the handle f
    body,     \* per process: bytes of resp.Body not yet copied
    runs,     \* per process: argument lists the current Update executed the download with
    pre,      \* per process: the files as they were when the last Update started, and
              \* the body the server sent it
    res,      \* per process: what the last call returned
    heads,    \* the last HEAD request issued: <<>> or <<[t, completed, flip]>>
    installed \* the last successful install: <<>> or <<before>>, the content that
              \* was live at Path before it

vars ==
    <<u, runtime, ioFaults, now, dir, inodes, stamp, remote, pc, fd, off, body, runs, pre, res, heads,
      installed>>

----------------------------------------------------------------------------
(* Bounds of the model *)

\* length, in chunks written by io.Copy, of every binary
ArtLen == 2
\* how far the clock advances during a run
MaxTicks == 3
\* inode table size
NInodes == 5
\* the clock at the start of a run (far after the zero time.Time)
Start == 200
\* age of an old binary / old stamp at the start of a run
OldAge == 120

\* how far, in hours, the binary's modification time is set from the artifact's
MaxDiff == 40

(* Program constants *)

DefaultCheckInterval == 24
checkSuffix == ".check"
downloadSuffix == ".download"
backupSuffix == ".backup"
StatusOK == 200

\* the zero time.Time (lastCheckTime when the stamp file does not exist)
ZeroTime == 0

\* errno texts: EIO is the failure the environment injects
EIO == "input/output error"
EEXIST == "file exists"
ENOENT == "no such file or directory"

Procs == {1, 2}
Inodes == 1 .. NInodes
nil == <<>>

----------------------------------------------------------------------------
(* Platform naming *)

\* strings.Title on the operating system identifiers
goosToUname(goos) ==
    CASE goos = "linux" -> "Linux"
      [] goos = "darwin" -> "Darwin"
      [] OTHER -> goos

\* the unameArches map; a missing key reads as the empty string
goarchToUname(goarch) ==
    CASE goarch = "amd64" -> "x86_64"
      [] OTHER -> ""

unameOS == goosToUname(runtime.GOOS)
unameArch == goarchToUname(runtime.GOARCH)

\* BaseURL + "-" + unameOS() + "-" + unameArch(), kept as its three parts
updateURL(cfg) == <<cfg.BaseURL, unameOS, unameArch>>

----------------------------------------------------------------------------
(* Binaries and the server *)

\* a complete binary of a version: ArtLen chunks, each tagged with the version
Artifact(v) == [i \in 1 .. ArtLen |-> v]
OldVersion == 1
RemoteVersions == {2, 3}
\* versions whose binary exits non-zero when executed (the tests' "exit 1" script)
FailingVersions == {3}
CompleteBinaries == {Artifact(v) : v \in {OldVersion} \cup RemoteVersions}

\* the one URL the publishing side serves
PublishedURL == <<"url", "Linux", "x86_64">>

StatusText(code) ==
    CASE code = 200 -> "200 OK"
      [] code = 404 -> "404 Not Found"
      [] code = 500 -> "500 Internal Server Error"

\* status codes the server may answer a request for url with
ServerStatuses(url) == IF url = PublishedURL THEN {200, 500} ELSE {404}

\* exit status of executing a file with the given bytes: -1 is a launch failure
ExitStatus(data) ==
    IF data \notin CompleteBinaries THEN -1
    ELSE IF data[1] \in FailingVersions THEN 1 ELSE 0

----------------------------------------------------------------------------
(* File system helpers *)

FreeInode == [data |-> <<>>, mtime |-> 0]

Refs(d, f) == ({d.Path, d.updatePath, d.backupPath} \cup {f[p] : p \in Procs}) \ {0}

\* inodes with no directory entry and no open handle are released
Gc(d, f, ino) == [i \in Inodes |-> IF i \in Refs(d, f) THEN ino[i] ELSE FreeInode]

NewInode(d, f) ==
    CHOOSE i \in Inodes : i \notin Refs(d, f) /\ \A j \in Inodes : j \notin Refs(d, f) => i <= j

\* write one chunk b at 0-based offset o; a gap below o reads as zero bytes
WriteAt(data, o, b) ==
    [i \in 1 .. (IF o + 1 > Len(data) THEN o + 1 ELSE Len(data)) |->
        IF i = o + 1 THEN b
        ELSE IF i <= Len(data) THEN data[i] ELSE 0]

\* [data, mtime] of the file at a path, for comparing a path before and after a call
FileAt(d, ino, path) ==
    IF d[path] = 0 THEN [data |-> <<"absent">>, mtime |-> 0] ELSE ino[d[path]]

\* what a call of Update starts from (leftover is <<>>, or <<data>> when an
\* earlier call left a .download file holding data); served is the body the
\* GET answers with
Snapshot ==
    [Path |-> FileAt(dir, inodes, "Path"), backupPath |-> FileAt(dir, inodes, "backupPath"),
     leftover |-> IF dir.updatePath = 0 THEN <<>> ELSE <<inodes[dir.updatePath].data>>,
     served |-> <<>>]

----------------------------------------------------------------------------
(* Configuration *)

\* faulty variant: an unset CheckInterval is not given the default
checkValidityNoDefault(cfg, exeOk) ==
    IF cfg.BaseURL = "" THEN [err |-> <<"Updater: BaseURL is required">>, u |-> cfg]
    ELSE IF cfg.CheckInterval <= 0
         THEN [err |-> <<"Updater: CheckInterval must be > 0">>, u |-> cfg]
         ELSE IF cfg.Path = "" /\ ~exeOk THEN [err |-> <<"osext.Executable">>, u |-> cfg]
              ELSE [err |-> nil, u |-> [cfg EXCEPT !.Path = "somebinary"]]

\* checkValidity: the error it returns and the fields as it leaves them.
\* exeOk says whether osext.Executable() succeeds when Path is unset.
checkValidity(cfg, exeOk) ==
    IF cfg.BaseURL = "" THEN [err |-> <<"Updater: BaseURL is required">>, u |-> cfg]
    ELSE LET c1 == [cfg EXCEPT !.CheckInterval = IF @ = 0 THEN DefaultCheckInterval ELSE @]
         IN IF c1.CheckInterval <= 0
            THEN [err |-> <<"Updater: CheckInterval must be > 0">>, u |-> c1]
            ELSE IF c1.Path = ""
                 THEN IF exeOk THEN [err |-> nil, u |-> [c1 EXCEPT !.Path = "somebinary"]]
                               ELSE [err |-> <<"osext.Executable">>, u |-> c1]
                 ELSE [err |-> nil, u |-> c1]

----------------------------------------------------------------------------
(* Results *)

ZeroMetadata == [Updated |-> ZeroTime, Diff |-> 0]

NoResult == [op |-> "none", err |-> nil, metadata |-> ZeroMetadata, head |-> FALSE]

UpdateResult(e) == [op |-> "Update", err |-> e, metadata |-> ZeroMetadata, head |-> FALSE]

CheckResult(e, md, h) == [op |-> "MaybeCheckForUpdate", err |-> e, metadata |-> md, head |-> h]

----------------------------------------------------------------------------
(* Initial state *)

Configs ==
    [BaseURL : {"", "url"}, Path : {"", "somebinary"},
     CheckInterval : {-1, 0, 1, 2}, ApplyArgs : {<<>>, <<"apply", "args">>}]

Init ==
    /\ u \in Configs
    /\ runtime \in [GOOS : {"linux"}, GOARCH : {"amd64", "arm64"}]
    /\ ioFaults \in BOOLEAN
    /\ now = Start
    /\ dir = [Path |-> 1, updatePath |-> 0, backupPath |-> 0]
    /\ \E t \in {Start - OldAge, Start} :
          inodes = [i \in Inodes |-> IF i = 1 THEN [data |-> Artifact(OldVersion), mtime |-> t]
                                     ELSE FreeInode]
    /\ stamp \in {[exists |-> FALSE, mtime |-> 0]}
                 \cup {[exists |-> TRUE, mtime |-> Start - a] : a \in {0, DefaultCheckInterval - 2}}
    /\ remote \in [version : RemoteVersions, modified : {Start}]
    /\ pc = [p \in Procs |-> "idle"]
    /\ fd = [p \in Procs |-> 0]
    /\ off = [p \in Procs |-> 0]
    /\ body = [p \in Procs |-> <<>>]
    /\ runs = [p \in Procs |-> <<>>]
    /\ pre = [p \in Procs |-> Snapshot]
    /\ res = [p \in Procs |-> NoResult]
    /\ heads = <<>>
    /\ installed = <<>>

----------------------------------------------------------------------------
(* Environment *)

Tick ==
    /\ now < Start + MaxTicks
    /\ now' = now + 1
    /\ UNCHANGED <<u, runtime, ioFaults, installed, dir, inodes, stamp, remote, pc, fd, off, body, runs, pre, res, heads>>

\* the publishing side replaces the artifact
Publish ==
    /\ \E v \in RemoteVersions :
          /\ v > remote.version
          /\ remote' = [version |-> v, modified |-> now]
    /\ UNCHANGED <<u, runtime, ioFaults, installed, now, dir, inodes, stamp, pc, fd, off, body, runs, pre, res, heads>>

----------------------------------------------------------------------------
(* Update, one action per file or network operation *)

\* leave Update with error e: the deferred f.Close() runs
Return(p, e, d, ino) ==
    /\ pc' = [pc EXCEPT ![p] = "idle"]
    /\ fd' = [fd EXCEPT ![p] = 0]
    /\ off' = [off EXCEPT ![p] = 0]
    /\ body' = [body EXCEPT ![p] = <<>>]
    /\ res' = [res EXCEPT ![p] = UpdateResult(e)]
    /\ dir' = d
    /\ inodes' = Gc(d, [fd EXCEPT ![p] = 0], ino)

\* Update entry: checkValidity
UpdateCall(p) ==
    /\ pc[p] = "idle"
    /\ \E exeOk \in BOOLEAN :
          LET v == checkValidity(u, exeOk) IN
          /\ u' = v.u
          /\ IF v.err # nil
             THEN /\ res' = [res EXCEPT ![p] = UpdateResult(v.err)]
                  /\ UNCHANGED <<pc, pre, runs>>
             ELSE /\ pc' = [pc EXCEPT ![p] = "open"]
                  /\ pre' = [pre EXCEPT ![p] = Snapshot]
                  /\ runs' = [runs EXCEPT ![p] = <<>>]
                  /\ UNCHANGED res
    /\ UNCHANGED <<runtime, ioFaults, installed, now, dir, inodes, stamp, remote, fd, off, body, heads>>

\* os.OpenFile(path, O_WRONLY|O_TRUNC|O_CREATE, 0700) as the handle f
OpenFileAt(p, path) ==
    /\ pc[p] = "open"
    /\ \/ ioFaults /\ Return(p, <<"open", EIO>>, dir, inodes)
       \/ /\ LET i == IF dir[path] # 0 THEN dir[path] ELSE NewInode(dir, fd)
                 d == [dir EXCEPT ![path] = i]
             IN /\ dir' = d
                /\ fd' = [fd EXCEPT ![p] = i]
                /\ inodes' = [inodes EXCEPT ![i] = [data |-> <<>>, mtime |-> now]]
          /\ off' = [off EXCEPT ![p] = 0]
          /\ pc' = [pc EXCEPT ![p] = "get"]
          /\ UNCHANGED <<body, res>>
    /\ UNCHANGED <<u, runtime, ioFaults, installed, now, stamp, remote, runs, pre, heads>>

\* faulty variant: the download is written over the live binary
OpenFileInPlace(p) == OpenFileAt(p, "Path")

\* faulty variant: the .download file is opened without O_TRUNC
OpenFileNoTrunc(p) ==
    /\ pc[p] = "open"
    /\ LET i == IF dir.updatePath # 0 THEN dir.updatePath ELSE NewInode(dir, fd)
       IN /\ dir' = [dir EXCEPT !.updatePath = i]
          /\ fd' = [fd EXCEPT ![p] = i]
          /\ inodes' = IF dir.updatePath # 0 THEN inodes
                        ELSE [inodes EXCEPT ![i] = [data |-> <<>>, mtime |-> now]]
    /\ off' = [off EXCEPT ![p] = 0]
    /\ pc' = [pc EXCEPT ![p] = "get"]
    /\ UNCHANGED <<u, runtime, ioFaults, installed, now, stamp, remote, runs, pre, heads, body, res>>

\* the download goes to the file beside the binary, never to the binary itself
OpenFile(p) == OpenFileAt(p, "updatePath")

\* http.Get(url) and the status test
Get(p) ==
    /\ pc[p] = "get"
    /\ \/ ioFaults /\ Return(p, <<"http.Get", EIO>>, dir, inodes) /\ UNCHANGED pre
       \/ \E code \in ServerStatuses(updateURL(u)) :
             IF code # StatusOK
             THEN Return(p, <<"status not 200 OK: ", StatusText(code)>>, dir, inodes)
                  /\ UNCHANGED pre
             ELSE /\ body' = [body EXCEPT ![p] = Artifact(remote.version)]
                  /\ pre' = [pre EXCEPT ![p].served = Artifact(remote.version)]
                  /\ pc' = [pc EXCEPT ![p] = "copy"]
                  /\ UNCHANGED <<dir, inodes, fd, off, res>>
    /\ UNCHANGED <<u, runtime, ioFaults, installed, now, stamp, remote, runs, heads>>

\* faulty variant: the error of io.Copy is dropped and the update goes on
CopyIgnoringError(p) ==
    /\ pc[p] = "copy"
    /\ body[p] # <<>>
    /\ \/ /\ body' = [body EXCEPT ![p] = <<>>]
          /\ UNCHANGED <<inodes, off>>
       \/ /\ inodes' = [inodes EXCEPT ![fd[p]] =
                           [data |-> WriteAt(@.data, off[p], Head(body[p])), mtime |-> now]]
          /\ off' = [off EXCEPT ![p] = @ + 1]
          /\ body' = [body EXCEPT ![p] = Tail(@)]
    /\ UNCHANGED <<u, runtime, ioFaults, installed, now, dir, fd, pc, res, stamp, remote, runs, pre, heads>>

\* io.Copy(f, resp.Body): one chunk per step
Copy(p) ==
    /\ pc[p] = "copy"
    /\ body[p] # <<>>
    /\ \/ ioFaults /\ Return(p, <<"io.Copy", EIO>>, dir, inodes)
       \/ /\ inodes' = [inodes EXCEPT ![fd[p]] =
                           [data |-> WriteAt(@.data, off[p], Head(body[p])), mtime |-> now]]
          /\ off' = [off EXCEPT ![p] = @ + 1]
          /\ body' = [body EXCEPT ![p] = Tail(@)]
          /\ UNCHANGED <<dir, fd, pc, res>>
    /\ UNCHANGED <<u, runtime, ioFaults, installed, now, stamp, remote, runs, pre, heads>>

\* resp.Body.Close() and f.Close()
Close(p) ==
    /\ pc[p] = "copy"
    /\ body[p] = <<>>
    /\ \/ ioFaults /\ Return(p, <<"Close", EIO>>, dir, inodes)
       \/ /\ fd' = [fd EXCEPT ![p] = 0]
          /\ off' = [off EXCEPT ![p] = 0]
          /\ inodes' = Gc(dir, [fd EXCEPT ![p] = 0], inodes)
          /\ pc' = [pc EXCEPT ![p] = IF Len(u.ApplyArgs) # 0 THEN "apply" ELSE "remove"]
          /\ UNCHANGED <<dir, body, res>>
    /\ UNCHANGED <<u, runtime, ioFaults, installed, now, stamp, remote, runs, pre, heads>>

\* faulty variant: the result of the validation run is ignored
ApplyUnchecked(p) ==
    /\ pc[p] = "apply"
    /\ runs' = [runs EXCEPT ![p] = Append(@, u.ApplyArgs)]
    /\ pc' = [pc EXCEPT ![p] = "remove"]
    /\ UNCHANGED <<u, runtime, ioFaults, installed, now, dir, inodes, fd, off, body, res, stamp, remote,
                   pre, heads>>

\* faulty variant: the download is executed with its arguments in reverse order
ApplyArgsReversed(p) ==
    /\ pc[p] = "apply"
    /\ runs' = [runs EXCEPT ![p] =
                  Append(@, [i \in 1 .. Len(u.ApplyArgs) |-> u.ApplyArgs[Len(u.ApplyArgs) + 1 - i]])]
    /\ IF dir.updatePath = 0 \/ ExitStatus(inodes[dir.updatePath].data) # 0
       THEN Return(p, <<"Update() failed to apply update: ", "exit status 1">>, dir, inodes)
       ELSE /\ pc' = [pc EXCEPT ![p] = "remove"]
            /\ UNCHANGED <<dir, inodes, fd, off, body, res>>
    /\ UNCHANGED <<u, runtime, ioFaults, installed, now, stamp, remote, pre, heads>>

\* exec.Command(updatePath, u.ApplyArgs...).Run()
Apply(p) ==
    /\ pc[p] = "apply"
    /\ runs' = [runs EXCEPT ![p] = Append(@, u.ApplyArgs)]
    /\ \E launched \in {TRUE, ~ioFaults} :
          LET status == IF dir.updatePath = 0 THEN -1
                        ELSE ExitStatus(inodes[dir.updatePath].data)
          IN IF ~launched
             THEN Return(p, <<"Update() failed to apply update: ", "fork/exec", EIO>>,
                         dir, inodes)
             ELSE IF status # 0
             THEN Return(p, <<"Update() failed to apply update: ",
                              IF status = -1 THEN "fork/exec" ELSE "exit status 1">>,
                         dir, inodes)
             ELSE /\ pc' = [pc EXCEPT ![p] = "remove"]
                  /\ UNCHANGED <<dir, inodes, fd, off, body, res>>
    /\ UNCHANGED <<u, runtime, ioFaults, installed, now, stamp, remote, pre, heads>>

\* faulty variant: the old backup is left in place
RemoveSkipped(p) ==
    /\ pc[p] = "remove"
    /\ pc' = [pc EXCEPT ![p] = "link"]
    /\ UNCHANGED <<u, runtime, ioFaults, installed, now, dir, inodes, fd, off, body, res, stamp, remote,
                   runs, pre, heads>>

\* os.Remove(backupPath); "does not exist" is ignored
Remove(p) ==
    /\ pc[p] = "remove"
    /\ \/ ioFaults /\ Return(p, <<"remove", EIO>>, dir, inodes)
       \/ /\ LET d == [dir EXCEPT !.backupPath = 0]
             IN /\ dir' = d
                /\ inodes' = Gc(d, fd, inodes)
          /\ pc' = [pc EXCEPT ![p] = "link"]
          /\ UNCHANGED <<fd, off, body, res>>
    /\ UNCHANGED <<u, runtime, ioFaults, installed, now, stamp, remote, runs, pre, heads>>

\* faulty variant: the backup is linked to the download instead of the live binary
LinkDownload(p) ==
    /\ pc[p] = "link"
    /\ dir.backupPath = 0
    /\ dir' = [dir EXCEPT !.backupPath = dir.updatePath]
    /\ pc' = [pc EXCEPT ![p] = "rename"]
    /\ UNCHANGED <<u, runtime, ioFaults, installed, now, inodes, fd, off, body, res, stamp, remote,
                   runs, pre, heads>>

\* faulty variant: a failed link is ignored and the install goes on
LinkIgnoringError(p) ==
    /\ pc[p] = "link"
    /\ \E failed \in {FALSE, ioFaults} :
          dir' = IF failed \/ dir.backupPath # 0 THEN dir ELSE [dir EXCEPT !.backupPath = dir.Path]
    /\ pc' = [pc EXCEPT ![p] = "rename"]
    /\ UNCHANGED <<u, runtime, ioFaults, installed, now, inodes, fd, off, body, res, stamp, remote,
                   runs, pre, heads>>

\* os.Link(u.Path, backupPath)
Link(p) ==
    /\ pc[p] = "link"
    /\ \/ ioFaults /\ Return(p, <<"link", EIO>>, dir, inodes)
       \/ IF dir.backupPath # 0 \/ dir.Path = 0
          THEN Return(p, <<"link", IF dir.Path = 0 THEN ENOENT ELSE EEXIST>>, dir, inodes)
          ELSE /\ dir' = [dir EXCEPT !.backupPath = dir.Path]
               /\ pc' = [pc EXCEPT ![p] = "rename"]
               /\ UNCHANGED <<inodes, fd, off, body, res>>
    /\ UNCHANGED <<u, runtime, ioFaults, installed, now, stamp, remote, runs, pre, heads>>

\* faulty variant: a failed rename removes the download and the new backup
RenameCleaningUp(p) ==
    /\ pc[p] = "rename"
    /\ \/ /\ ioFaults
          /\ Return(p, <<"rename", EIO>>, [dir EXCEPT !.updatePath = 0, !.backupPath = 0], inodes)
          /\ UNCHANGED installed
       \/ /\ dir.updatePath # 0
          /\ Return(p, nil, [dir EXCEPT !.Path = dir.updatePath, !.updatePath = 0], inodes)
          /\ installed' = <<FileAt(dir, inodes, "Path").data>>
    /\ UNCHANGED <<u, runtime, ioFaults, now, stamp, remote, runs, pre, heads>>

\* os.Rename(updatePath, u.Path)
Rename(p) ==
    /\ pc[p] = "rename"
    /\ \/ ioFaults /\ Return(p, <<"rename", EIO>>, dir, inodes) /\ UNCHANGED installed
       \/ IF dir.updatePath = 0
          THEN Return(p, <<"rename", ENOENT>>, dir, inodes) /\ UNCHANGED installed
          ELSE /\ Return(p, nil,
                         IF dir.updatePath = dir.Path THEN dir
                         ELSE [dir EXCEPT !.Path = dir.updatePath, !.updatePath = 0],
                         inodes)
               /\ installed' = <<FileAt(dir, inodes, "Path").data>>
    /\ UNCHANGED <<u, runtime, ioFaults, now, stamp, remote, runs, pre, heads>>

\* the process is killed in the middle of Update
Kill(p) ==
    /\ pc[p] # "idle"
    /\ Return(p, <<"signal: killed">>, dir, inodes)
    /\ UNCHANGED <<u, runtime, ioFaults, installed, now, stamp, remote, runs, pre, heads>>

----------------------------------------------------------------------------
(* MaybeCheckForUpdate, one action for the whole call *)

\* faulty variant: a missing stamp counts as a check made just now
LastCheckTimeMissingIsNow(st) == IF st.exists THEN st.mtime ELSE Start + MaxTicks

\* lines 122-129: the stamp's modification time, the zero time when it is missing
LastCheckTime(st) == IF st.exists THEN st.mtime ELSE ZeroTime

\* faulty variant: the comparison of line 132 with <= for <
SkipCheckInclusive(diff, interval) == diff <= interval

\* line 132: the check is skipped when too little time has passed
SkipCheck(diff, interval) == diff < interval

\* what the server answers a HEAD with: no answer at all, or a status and a
\* Last-Modified header (<<>> when missing or not RFC 1123)
HeadResponses(url) ==
    {[answered |-> FALSE, code |-> 0, lastModified |-> <<>>]}
    \cup {[answered |-> TRUE, code |-> c, lastModified |-> h] :
            c \in ServerStatuses(url), h \in {<<>>, <<remote.modified>>}}

\* what the environment does to the steps of one call: whether the two stats
\* succeed, the server's answer, and how the stamp write ends ("ok", "failed"
\* before the file is opened, "touched" when it fails after the open created or
\* truncated it). The first step that fails ends the call, so at most one step
\* is made to fail.
CheckEnvs(url) ==
    LET good == [statStampOk |-> TRUE, statPathOk |-> TRUE,
                 resp |-> CHOOSE r \in HeadResponses(url) :
                             r.answered /\ r.lastModified # <<>>
                                /\ \A q \in HeadResponses(url) : q.answered => r.code <= q.code,
                 write |-> "ok"]
    IN  {good, [good EXCEPT !.statStampOk = FALSE], [good EXCEPT !.statPathOk = FALSE]}
        \cup {[good EXCEPT !.resp = r] : r \in HeadResponses(url)}
        \cup {[good EXCEPT !.write = w] : w \in {"failed", "touched"}}

\* time.Parse(time.RFC1123, header)
ParseOk(header) == Len(header) = 1

\* faulty variant: the difference is taken the other way round
NewMetadataSwapped(httpModified, modTime) ==
    [Updated |-> httpModified, Diff |-> modTime - httpModified]

\* Metadata{httpModified, httpModified.Sub(fileinfo.ModTime())}
NewMetadata(httpModified, modTime) == [Updated |-> httpModified, Diff |-> httpModified - modTime]

\* faulty variant: a binary exactly as old as the artifact counts as out of date
OutdatedInclusive(m) == m.Diff >= 0

Outdated(m) == m.Diff > 0

\* int(x) of Go truncates toward zero
Trunc(n, d) == IF n >= 0 THEN n \div d ELSE -((-n) \div d)

\* int(Diff.Hours()/24 + 0.5), Diff in whole hours
DaysOld(m) == Trunc(2 * m.Diff + 24, 48)

\* record a HEAD request issued at t; flip alternates with every request, so
\* that two requests in a row always differ
PushHead(h, t, done) ==
    <<[t |-> t, completed |-> done, flip |-> IF h = <<>> THEN FALSE ELSE ~h[1].flip]>>

\* lines 113-176 without the stamp write: the result, whether the HEAD was
\* issued, and how far the call got ("wrote" is the outcome of WriteFile, "none"
\* when the call ended before it)
CheckRun(cfg, st, t, d, ino, env) ==
    LET diff == t - LastCheckTime(st)
        stop(e, h) == [res |-> CheckResult(e, ZeroMetadata, h), head |-> h, wrote |-> "none"]
    IN  IF ~env.statStampOk THEN stop(<<"stat ", checkSuffix, EIO>>, FALSE)
        ELSE IF SkipCheck(diff, cfg.CheckInterval) THEN stop(nil, FALSE)
        ELSE IF ~env.statPathOk \/ d.Path = 0 THEN stop(<<"stat ", cfg.Path, EIO>>, FALSE)
        ELSE IF ~env.resp.answered THEN stop(<<"http.Head", EIO>>, TRUE)
        ELSE IF env.resp.code # StatusOK
             THEN stop(<<"status not 200 OK: ", StatusText(env.resp.code)>>, TRUE)
        ELSE IF ~ParseOk(env.resp.lastModified) THEN stop(<<"time.Parse">>, TRUE)
        ELSE IF env.write # "ok"
             THEN [res |-> CheckResult(<<"WriteFile", EIO>>, ZeroMetadata, TRUE),
                   head |-> TRUE, wrote |-> env.write]
        ELSE [res |-> CheckResult(nil, NewMetadata(env.resp.lastModified[1], ino[d.Path].mtime),
                                  TRUE),
              head |-> TRUE, wrote |-> "ok"]

\* faulty variant: the stamp is touched as soon as the HEAD is issued
NewStampOnHead(run, st, t) == IF run.head THEN [exists |-> TRUE, mtime |-> t] ELSE st

\* faulty variant: the stamp is never written
NewStampNever(run, st, t) == st

\* line 171: ioutil.WriteFile(checkStampPath, []byte{}, 0600) is reached only
\* at the end of a check, and creates or touches the stamp unless its open fails
NewStamp(run, st, t) ==
    IF run.wrote \in {"ok", "touched"} THEN [exists |-> TRUE, mtime |-> t] ELSE st

\* the call, but for what it leaves alone of the files beside the stamp
MaybeCheckCore(p) ==
    /\ pc[p] = "idle"
    /\ \E exeOk \in BOOLEAN :
          LET v == checkValidity(u, exeOk) IN
          /\ u' = v.u
          /\ IF v.err # nil
             THEN /\ res' = [res EXCEPT ![p] = CheckResult(v.err, ZeroMetadata, FALSE)]
                  /\ UNCHANGED <<stamp, heads>>
             ELSE \E env \in CheckEnvs(updateURL(v.u)) :
                     LET run == CheckRun(v.u, stamp, now, dir, inodes, env)
                     IN /\ res' = [res EXCEPT ![p] = run.res]
                        /\ stamp' = NewStamp(run, stamp, now)
                        /\ heads' = IF run.head THEN PushHead(heads, now, run.wrote = "ok")
                                     ELSE heads
    /\ UNCHANGED <<runtime, ioFaults, installed, now, remote, pc, fd, off, body, runs, pre>>

\* faulty variant: the empty stamp content is written to the binary's own path
MaybeCheckTruncating(p) ==
    /\ MaybeCheckCore(p)
    /\ dir' = dir
    /\ inodes' = IF stamp' # stamp /\ dir.Path # 0
                  THEN [inodes EXCEPT ![dir.Path] = [data |-> <<>>, mtime |-> now]]
                  ELSE inodes

MaybeCheckForUpdate(p) ==
    /\ MaybeCheckCore(p)
    /\ UNCHANGED <<dir, inodes>>

----------------------------------------------------------------------------
(* Specifications *)

UpdateStep(p) ==
    \/ UpdateCall(p)
    \/ OpenFile(p)
    \/ Get(p)
    \/ Copy(p)
    \/ Close(p)
    \/ Apply(p)
    \/ Remove(p)
    \/ Link(p)
    \/ Rename(p)

\* one process at a time: calls of MaybeCheckForUpdate and Update in sequence,
\* each Update possibly killed between two of its operations
Next ==
    \/ Tick
    \/ Publish
    \/ MaybeCheckForUpdate(1)
    \/ UpdateStep(1)
    \/ Kill(1)

Spec == Init /\ [][Next]_vars

\* the install sequence alone, under a valid configuration
InitInstall ==
    /\ Init
    /\ u.BaseURL = "url"
    /\ u.CheckInterval = 0
    /\ runtime.GOARCH = "amd64"
    /\ ioFaults
    /\ ~stamp.exists
    /\ inodes[1].mtime = Start - OldAge

NextInstall ==
    \/ Tick
    \/ Publish
    \/ UpdateStep(1)
    \/ Kill(1)

SpecInstall == InitInstall /\ [][NextInstall]_vars

\* the check gate alone, under every configuration
InitCheck ==
    /\ Init
    /\ u.Path = "somebinary"
    /\ u.ApplyArgs = <<>>
    /\ ioFaults

NextCheck ==
    \/ Tick
    \/ Publish
    \/ MaybeCheckForUpdate(1)

SpecCheck == InitCheck /\ [][NextCheck]_vars

\* checks and updates in sequence; here a call takes less than one unit of the
\* clock and only the server makes an Update fail
InitBoth ==
    /\ Init
    /\ u = [BaseURL |-> "url", Path |-> "somebinary", CheckInterval |-> 2,
            ApplyArgs |-> <<"apply", "args">>]
    /\ runtime.GOARCH = "amd64"
    /\ ~ioFaults
    /\ remote.version = 2
    /\ inodes[1].mtime = Start - OldAge

TickIdle == pc[1] = "idle" /\ Tick

NextBoth ==
    \/ TickIdle
    \/ MaybeCheckForUpdate(1)
    \/ UpdateStep(1)

SpecBoth == InitBoth /\ [][NextBoth]_vars

\* two processes running Update at the same time
InitConc ==
    /\ InitInstall
    /\ u.Path = "somebinary"

\* each process is one run of the host program: it calls Update once
NextConc ==
    \/ Publish
    \/ \E p \in Procs : res[p].op = "none" /\ UpdateStep(p)

SpecConc == InitConc /\ [][NextConc]_vars

\* every configuration on both architectures: calls of MaybeCheckForUpdate and
\* Update at one moment, the server and the disk working
InitConfig ==
    /\ Init
    /\ ~ioFaults
    /\ ~stamp.exists
    /\ remote.version = 2
    /\ inodes[1].mtime = Start - OldAge

NextConfig ==
    \/ MaybeCheckForUpdate(1)
    \/ UpdateStep(1)

SpecConfig == InitConfig /\ [][NextConfig]_vars

\* os.Chtimes(u.Path, t, t): the binary's modification time is set from outside
Chtimes ==
    /\ dir.Path # 0
    /\ \E t \in (Start - MaxDiff) .. (Start + MaxDiff) :
          inodes' = [inodes EXCEPT ![dir.Path].mtime = t]
    /\ UNCHANGED <<u, runtime, ioFaults, installed, now, dir, stamp, remote, pc, fd, off, body, runs,
                   pre, res, heads>>

\* checks of a binary of any age against one artifact
InitDays ==
    /\ Init
    /\ u = [BaseURL |-> "url", Path |-> "somebinary", CheckInterval |-> 1, ApplyArgs |-> <<>>]
    /\ runtime.GOARCH = "amd64"
    /\ ~ioFaults
    /\ ~stamp.exists
    /\ remote.version = 2
    /\ inodes[1].mtime = Start

NextDays ==
    \/ Chtimes
    \/ MaybeCheckForUpdate(1)

SpecDays == InitDays /\ [][NextDays]_vars

----------------------------------------------------------------------------
(* The install sequence, one process (SpecInstall) *)

Live == FileAt(dir, inodes, "Path")
Download == FileAt(dir, inodes, "updatePath")
Backup == FileAt(dir, inodes, "backupPath")
Returned(p) == pc[p] = "idle" /\ res[p].op = "Update"
ErrIs(e, first) == Len(e) >= 1 /\ e[1] = first

\* C1: whenever a reader opens Path during or after an Update, the file is
\* there and is a complete binary: while the Update runs and when it has
\* failed, the binary that was live when it started; when it has succeeded, the
\* complete body that was downloaded.
C1_LiveAlwaysComplete ==
    /\ dir.Path # 0
    /\ Live.data \in CompleteBinaries
    /\ pc[1] # "idle" => Live = pre[1].Path
    /\ Returned(1) => Live.data = IF res[1].err = nil THEN pre[1].served ELSE pre[1].Path.data

\* C1 witness: the download is half written while the old binary is live
C1_Witness ==
    /\ pc[1] = "copy"
    /\ Len(Download.data) = 1
    /\ Len(body[1]) = ArtLen - 1
    /\ Live.data = Artifact(OldVersion)

\* C2: with ApplyArgs set, Update goes past the validation run only when the
\* downloaded file ran and exited 0; and when it returned the validation error,
\* Path (content and modification time) and the backup are as they were when the
\* call started and the downloaded file is still at the .download path.
C2_FailedApplyChangesNothing ==
    /\ (pc[1] \in {"remove", "link", "rename"} /\ Len(u.ApplyArgs) # 0) =>
          /\ runs[1] = <<u.ApplyArgs>>
          /\ dir.updatePath # 0
          /\ ExitStatus(Download.data) = 0
    /\ (Returned(1) /\ ErrIs(res[1].err, "Update() failed to apply update: ")) =>
          /\ Live = pre[1].Path
          /\ Backup = pre[1].backupPath
          /\ dir.updatePath # 0
          /\ Download.data = pre[1].served

\* C2 witness: the new binary exited 1 while a backup of an earlier install exists
C2_Witness ==
    /\ Returned(1)
    /\ res[1].err = <<"Update() failed to apply update: ", "exit status 1">>
    /\ dir.backupPath # 0
    /\ Backup.data = Artifact(OldVersion)
    /\ Live.data = Artifact(2)
    /\ Download.data = Artifact(3)

DownloadErrors == {"open", "http.Get", "status not 200 OK: ", "io.Copy", "Close"}

\* C3: when the download step fails, Update returns its error (with the status
\* text for a status other than 200), Path and the backup are as they were when
\* the call started, and nothing was executed; validation, backup and rename are
\* reached only with the complete body in the .download file.
C3_FailedDownloadChangesNothing ==
    /\ pc[1] \in {"apply", "remove", "link", "rename"} =>
          /\ dir.updatePath # 0
          /\ Download.data = pre[1].served
          /\ pre[1].served \in CompleteBinaries
    /\ (Returned(1) /\ Len(res[1].err) >= 1 /\ res[1].err[1] \in DownloadErrors) =>
          /\ Live = pre[1].Path
          /\ Backup = pre[1].backupPath
          /\ runs[1] = <<>>
          /\ res[1].err[1] = "status not 200 OK: " => res[1].err[2] = StatusText(500)

\* C3 witness: the GET was answered 500 while a backup of an earlier install exists
C3_Witness ==
    /\ Returned(1)
    /\ res[1].err = <<"status not 200 OK: ", "500 Internal Server Error">>
    /\ dir.backupPath # 0
    /\ Live.data = Artifact(2)

\* errors that come from the environment of a call, not from the state the
\* earlier calls left: an injected I/O failure, a kill, the server's status, a
\* binary that fails its own validation
Environmental(e, served) ==
    /\ e # nil
    /\ \/ e[Len(e)] = EIO
       \/ e[1] \in {"signal: killed", "status not 200 OK: ", "osext.Executable"}
       \/ e[Len(e)] = "exit status 1" /\ ExitStatus(served) = 1

\* C4: every Update that the environment does not fail returns nil, whatever
\* the earlier calls left behind, and then Path holds the body the server sent,
\* the .download file is gone and the backup is the binary that was live.
C4_RepeatedUpdateSucceeds ==
    (Returned(1) /\ ~Environmental(res[1].err, pre[1].served)) =>
        /\ res[1].err = nil
        /\ Live.data = pre[1].served
        /\ dir.updatePath = 0
        /\ Backup = pre[1].Path

\* C4 witness: a second successful Update of the same artifact, started with
\* the backup of the first in place
C4_Witness ==
    /\ Returned(1)
    /\ res[1].err = nil
    /\ pre[1].backupPath.data = Artifact(OldVersion)
    /\ pre[1].Path.data = Artifact(remote.version)
    /\ Live.data = Artifact(remote.version)
    /\ Backup.data = Artifact(remote.version)

----------------------------------------------------------------------------
(* The check gate (SpecCheck) and checks between updates (SpecBoth) *)

\* a step of process 1 that is a call of MaybeCheckForUpdate
CheckStep ==
    /\ pc[1] = "idle" /\ pc'[1] = "idle"
    /\ res'[1].op = "MaybeCheckForUpdate"
    /\ now' = now /\ remote' = remote

\* the configuration passes checkValidity
Valid == checkValidity(u, TRUE).err = nil
Interval == checkValidity(u, TRUE).u.CheckInterval

StatStampError == <<"stat ", checkSuffix, EIO>>
StatError(e) == ErrIs(e, "stat ")
Skipped == CheckResult(nil, ZeroMetadata, FALSE)
HeadIssued == heads' # heads

\* C5: under a valid configuration (any CheckInterval > 0, the default filled in
\* when unset), a check made with no stamp file issues the HEAD request unless a
\* stat fails; and a check made less than CheckInterval after a completed check
\* wrote the stamp issues no request and returns the zero Metadata and no error.
C5_FirstCheckThenSkip ==
    [][(CheckStep /\ Valid /\ ~StatError(res'[1].err)) =>
          /\ ~stamp.exists => HeadIssued /\ res'[1].head
          /\ ( /\ stamp.exists
               /\ res[1].op = "MaybeCheckForUpdate" /\ res[1].err = nil /\ res[1].head
               /\ now - stamp.mtime < Interval ) =>
                  ~HeadIssued /\ res'[1] = Skipped]_vars

\* C5 witness: a completed check wrote the stamp, and a check made an hour
\* later, within the interval, was skipped
C5_Witness ==
    /\ res[1] = Skipped
    /\ heads # <<>> /\ heads[1].completed
    /\ stamp.exists /\ stamp.mtime = heads[1].t
    /\ now = stamp.mtime + 1
    /\ now - stamp.mtime < u.CheckInterval

\* C6: under a valid configuration and with a stamp file that can be read, a
\* check issues the HEAD request only if now - mtime(stamp) >= CheckInterval, it
\* does issue it then unless the stat of Path fails, and below the interval it
\* returns the zero Metadata and no error without any request.
C6_GateExact ==
    [][(CheckStep /\ Valid /\ stamp.exists /\ res'[1].err # StatStampError) =>
          LET due == now - stamp.mtime >= Interval
          IN /\ HeadIssued => due
             /\ (due /\ ~StatError(res'[1].err)) => HeadIssued /\ res'[1].head
             /\ ~due => ~HeadIssued /\ res'[1] = Skipped]_vars

\* C6 witness: a HEAD request went out exactly CheckInterval after the stamp
\* was last touched (the request failed, so the stamp still shows that time)
C6_Witness ==
    /\ res[1].op = "MaybeCheckForUpdate"
    /\ res[1].err = <<"http.Head", EIO>>
    /\ heads # <<>> /\ heads[1].t = now
    /\ stamp.exists
    /\ now - stamp.mtime = u.CheckInterval

\* a check that failed after it had passed the gate
FailedPastGate ==
    /\ pc[1] = "idle"
    /\ res[1].op = "MaybeCheckForUpdate"
    /\ res[1].err \notin {nil, StatStampError, <<"WriteFile", EIO>>}

\* C7: the stamp (existence and modification time) changes only in a call of
\* MaybeCheckForUpdate whose HEAD was answered 200 with a Last-Modified that
\* parses, i.e. one that reached the stamp write; no skipped or failed check and
\* no step of Update changes it. So after a check that failed past the gate the
\* gate is still open for the next check.
C7_StampOnlyByCompletedCheck ==
    /\ [][stamp' # stamp =>
            /\ CheckStep
            /\ HeadIssued /\ res'[1].head
            /\ res'[1].err \in {nil, <<"WriteFile", EIO>>}]_vars
    /\ [](FailedPastGate => ~SkipCheck(now - LastCheckTime(stamp), u.CheckInterval))

\* C7 witness: after an install, a check failed on the server's answer and the
\* old stamp is untouched, so the gate is still open
C7_Witness ==
    /\ pc[1] = "idle"
    /\ res[1] = CheckResult(<<"status not 200 OK: ", StatusText(500)>>, ZeroMetadata, TRUE)
    /\ heads # <<>> /\ heads[1].t = now /\ ~heads[1].completed
    /\ stamp.exists /\ stamp.mtime < Start
    /\ dir.backupPath # 0

\* C8 as claimed: any two HEAD requests in a row are at least CheckInterval apart
C8_HeadsAlwaysApart ==
    [][(HeadIssued /\ heads # <<>>) => heads'[1].t - heads[1].t >= Interval]_vars

\* C8 amended: a HEAD request that follows one whose check completed (200, a
\* Last-Modified that parses, the stamp written) comes at least CheckInterval
\* after it; after a check that failed, the next one may follow at once.
C8_HeadsApartAfterCompleted ==
    [][(HeadIssued /\ heads # <<>> /\ heads[1].completed) =>
            heads'[1].t - heads[1].t >= Interval]_vars

\* C8 witness: a second HEAD request, issued CheckInterval or more after the
\* stamp was written by an earlier check
C8_Witness ==
    /\ heads # <<>> /\ heads[1].flip /\ ~heads[1].completed
    /\ res[1].op = "MaybeCheckForUpdate" /\ res[1].head
    /\ stamp.exists /\ stamp.mtime > Start
    /\ heads[1].t - stamp.mtime >= u.CheckInterval

\* C9: a call of MaybeCheckForUpdate, whatever its outcome, leaves Path, the
\* .download file and the .backup file as they are (links, content and
\* modification times).
C9_CheckLeavesFilesAlone ==
    [][(pc[1] = "idle" /\ pc'[1] = "idle" /\ res'[1].op = "MaybeCheckForUpdate") =>
            dir' = dir /\ inodes' = inodes]_vars

\* C9 witness: a check completed with a backup and a left-over download on disk
C9_Witness ==
    /\ res[1].op = "MaybeCheckForUpdate" /\ res[1].err = nil /\ res[1].head
    /\ stamp.exists /\ stamp.mtime = now
    /\ dir.backupPath # 0
    /\ dir.updatePath # 0

----------------------------------------------------------------------------
(* Two updates at once (SpecConc) *)

\* C10: with two Updates interleaved, Path always holds a complete binary
C10_LiveCompleteConcurrent ==
    /\ dir.Path # 0
    /\ Live.data \in CompleteBinaries

----------------------------------------------------------------------------
(* The backup and the validation run (SpecInstall) *)

\* C11 as claimed: after any sequence of Updates, a backup that exists holds the
\* binary that was live before the most recent successful install
C11_BackupIsPreviousLive ==
    (pc[1] = "idle" /\ dir.backupPath # 0 /\ installed # <<>>) => Backup.data = installed[1]

\* C11 amended: between calls, a backup that exists holds the binary that was
\* live before the most recent successful install, or, when a later Update made
\* its link and then failed or was killed before the rename, it is a link to the
\* binary that is live now; and after a successful Update the backup is the
\* binary that was live before the call and Path holds the downloaded artifact.
C11_BackupIsPreviousOrLive ==
    /\ (pc[1] = "idle" /\ dir.backupPath # 0) =>
          \/ installed # <<>> /\ Backup.data = installed[1]
          \/ dir.backupPath = dir.Path
    /\ (Returned(1) /\ res[1].err = nil) =>
          /\ Backup = pre[1].Path
          /\ installed = <<pre[1].Path.data>>
          /\ Live.data = pre[1].served

\* C11 witness: after a successful install, a later Update failed at the rename:
\* the backup is now a link to the live binary, not to the one before it
C11_Witness ==
    /\ Returned(1)
    /\ res[1].err = <<"rename", EIO>>
    /\ installed = <<Artifact(OldVersion)>>
    /\ dir.backupPath = dir.Path
    /\ Backup.data = Artifact(2)

\* the validation runs an Update with the configured ApplyArgs must have made
ExpectedRuns == IF Len(u.ApplyArgs) # 0 THEN <<u.ApplyArgs>> ELSE <<>>

\* C12: the download is executed only when it is completely written and closed
\* and while Path and the backup are still as the call found them; past the
\* validation and after a successful Update it has been executed exactly once,
\* with exactly u.ApplyArgs in order, and Path then holds the downloaded
\* content; with ApplyArgs empty nothing is ever executed.
C12_AppliedOnceInOrder ==
    /\ pc[1] = "apply" =>
          /\ runs[1] = <<>>
          /\ fd[1] = 0 /\ body[1] = <<>>
          /\ dir.updatePath # 0
          /\ Download.data = pre[1].served /\ pre[1].served \in CompleteBinaries
          /\ Live = pre[1].Path
          /\ Backup = pre[1].backupPath
    /\ pc[1] \in {"remove", "link", "rename"} => runs[1] = ExpectedRuns
    /\ (Returned(1) /\ res[1].err = nil) => runs[1] = ExpectedRuns /\ Live.data = pre[1].served
    /\ Len(u.ApplyArgs) = 0 => runs[1] = <<>>

\* C12 witness: an Update with ApplyArgs set succeeded after one validation run
C12_Witness ==
    /\ Returned(1)
    /\ res[1].err = nil
    /\ runs[1] = <<(<<"apply", "args">>)>>
    /\ Live.data = Artifact(2)
    /\ pre[1].served = Artifact(2)

----------------------------------------------------------------------------
(* Configuration errors (SpecConfig) *)

ConfigErrors == {<<"Updater: BaseURL is required">>, <<"Updater: CheckInterval must be > 0">>}

\* the last call sent a request to the server
Requested ==
    \/ res[1].op = "MaybeCheckForUpdate" /\ res[1].head
    \/ res[1].op = "Update" /\ ErrIs(res[1].err, "status not 200 OK: ")
    \/ pc[1] \in {"copy", "apply", "remove", "link", "rename"}

\* C13: on an architecture with no entry in the mapping, MaybeCheckForUpdate
\* and Update return an error and no HEAD or GET is ever sent
C13_UnmappedArchIsConfigError ==
    unameArch = "" =>
        /\ heads = <<>>
        /\ ~Requested
        /\ res[1].op # "none" => res[1].err # nil

\* the configurations checkValidity rejects for their fields: BaseURL empty, or
\* CheckInterval negative (0 is "unset" and is replaced by the default first)
BadFields == u.BaseURL = "" \/ u.CheckInterval < 0

\* a step that is a call returning at once with nothing read, written or requested
Untouched ==
    /\ pc'[1] = "idle"
    /\ ~res'[1].head /\ res'[1].metadata = ZeroMetadata
    /\ UNCHANGED <<dir, inodes, stamp, heads, fd, runs>>

\* a step that is a call going past checkValidity
Passed ==
    \/ pc'[1] = "open"
    \/ pc'[1] = "idle" /\ res'[1].err \notin ConfigErrors \cup {<<"osext.Executable">>}

DefaultFilled ==
    /\ u'.CheckInterval > 0
    /\ u'.CheckInterval = IF u.CheckInterval = 0 THEN DefaultCheckInterval ELSE u.CheckInterval

\* C14 as claimed: a call with BaseURL empty or CheckInterval invalid returns
\* the configuration error with nothing done; with every other configuration
\* checkValidity succeeds and leaves CheckInterval > 0 (the default when unset)
C14_FailsIffBadFields ==
    [][pc[1] = "idle" =>
          IF BadFields THEN res'[1].err \in ConfigErrors /\ Untouched
          ELSE Passed /\ DefaultFilled]_vars

\* C14 amended: as claimed, with 0 counted as unset, not as invalid, and except
\* that with Path unset checkValidity also fails, with nothing done, when the
\* path of the running executable cannot be found
C14_FailsIffBadFieldsOrNoExecutable ==
    [][pc[1] = "idle" =>
          IF BadFields THEN res'[1].err \in ConfigErrors /\ Untouched
          ELSE /\ DefaultFilled
               /\ \/ Passed
                  \/ u.Path = "" /\ res'[1].err = <<"osext.Executable">> /\ Untouched]_vars

\* C14 witness: Update was called with a negative CheckInterval and returned the
\* configuration error with the disk as it was
C14_Witness ==
    /\ res[1] = UpdateResult(<<"Updater: CheckInterval must be > 0">>)
    /\ u.CheckInterval < 0 /\ u.BaseURL # ""
    /\ pc[1] = "idle"
    /\ dir = [Path |-> 1, updatePath |-> 0, backupPath |-> 0]
    /\ heads = <<>> /\ ~stamp.exists

----------------------------------------------------------------------------
(* The Metadata a check returns (SpecCheck, SpecDays) *)

\* a step that is a call of MaybeCheckForUpdate that went through to its end
CompletedCheck == CheckStep /\ res'[1].err = nil /\ res'[1].head

\* C15: a completed check returns Updated = the server's Last-Modified and
\* Diff = Last-Modified minus the modification time Path had when the check
\* ran, so Outdated() holds exactly when Last-Modified is strictly later than
\* that time; and a Diff of five days (120 hours) gives DaysOld() = 5.
C15_MetadataOfCompletedCheck ==
    [][CompletedCheck =>
          LET m == res'[1].metadata
              local == inodes[dir.Path].mtime
          IN /\ m.Updated = remote.modified
             /\ m.Diff = remote.modified - local
             /\ Outdated(m) <=> remote.modified > local
             /\ m.Diff = 5 * 24 => DaysOld(m) = 5]_vars

\* C15 witness: the binary is five days older than the artifact and a check
\* has returned Diff = 5 days, Outdated, DaysOld = 5
C15_Witness ==
    /\ res[1].op = "MaybeCheckForUpdate" /\ res[1].err = nil /\ res[1].head
    /\ heads # <<>> /\ heads[1].completed
    /\ Live.mtime + 5 * 24 = remote.modified
    /\ res[1].metadata = [Updated |-> remote.modified, Diff |-> 5 * 24]
    /\ Outdated(res[1].metadata)
    /\ DaysOld(res[1].metadata) = 5

Abs(n) == IF n >= 0 THEN n ELSE -n

\* C16: for every signed Diff, DaysOld() is Diff in hours divided by 24 rounded
\* to the nearest whole day (no whole number of days is nearer to Diff)
C16_DaysOldIsNearestDay ==
    (res[1].op = "MaybeCheckForUpdate" /\ res[1].err = nil /\ res[1].head) =>
        2 * Abs(24 * DaysOld(res[1].metadata) - res[1].metadata.Diff) <= 24

----------------------------------------------------------------------------
(* Failures late in the install (SpecInstall) *)

\* C17: when the rename fails, Update returns its error and leaves the old
\* binary live at Path (content and modification time as before the call), the
\* backup present as a link to that binary, and the complete download still at
\* the .download path: nothing is rolled back or cleaned up.
C17_FailedRenameKeepsAll ==
    (Returned(1) /\ ErrIs(res[1].err, "rename")) =>
        /\ Live = pre[1].Path
        /\ dir.backupPath # 0 /\ dir.backupPath = dir.Path
        /\ dir.updatePath # 0 /\ dir.updatePath # dir.Path
        /\ Download.data = pre[1].served /\ pre[1].served \in CompleteBinaries

\* C17 witness: the rename failed in the first install of version 2
C17_Witness ==
    /\ Returned(1)
    /\ res[1].err = <<"rename", EIO>>
    /\ installed = <<>>
    /\ Live.data = Artifact(OldVersion)
    /\ dir.backupPath = dir.Path
    /\ Download.data = Artifact(2)

\* a backup existed when the last Update started
HadBackup == pre[1].backupPath.data # <<"absent">>

\* during the last Update or after it
InCall == pc[1] # "idle" \/ Returned(1)

\* C18 as claimed: from a state with a backup, in every intermediate and final
\* state of an Update a backup exists and is the previous backup or the
\* binary that was live before this install
C18_BackupNeverAbsent ==
    (InCall /\ HadBackup) =>
        /\ dir.backupPath # 0
        /\ Backup \in {pre[1].backupPath, pre[1].Path}

\* C18 amended: the backup is removed and then linked again. From a state with
\* a backup, the backup is the previous one up to the removal and the binary
\* that was live before this install from the link on; it is absent between
\* the two steps, and stays absent when the link fails or the process is killed
\* there. It is never a partial file.
C18_BackupAbsentOnlyAroundLink ==
    (InCall /\ HadBackup) =>
        /\ pc[1] \in {"open", "get", "copy", "apply", "remove"} => Backup = pre[1].backupPath
        /\ (pc[1] = "rename" \/ (Returned(1) /\ res[1].err = nil)) => Backup = pre[1].Path
        /\ IF dir.backupPath = 0
           THEN \/ pc[1] = "link"
                \/ Returned(1) /\ res[1].err \in {<<"link", EIO>>, <<"signal: killed">>}
           ELSE Backup \in {pre[1].backupPath, pre[1].Path}

\* C18 witness: the link failed after the previous backup had been removed
C18_Witness ==
    /\ Returned(1)
    /\ res[1].err = <<"link", EIO>>
    /\ HadBackup
    /\ dir.backupPath = 0
    /\ Live = pre[1].Path

\* the last Update started with a .download file left by an earlier call
HadLeftover == pre[1].leftover # <<>>

\* C19: an Update that starts with a left-over .download file, whatever it
\* holds, empties it when it opens it and then writes the served body from the
\* start, so the file never mixes old and new bytes; when the Update succeeds,
\* Path holds exactly the body served to it and the .download file is gone.
C19_LeftoverOverwritten ==
    HadLeftover =>
        /\ pc[1] = "get" => dir.updatePath # 0 /\ Download.data = <<>>
        /\ pc[1] = "copy" =>
              /\ fd[1] = dir.updatePath
              /\ Download.data = SubSeq(pre[1].served, 1, off[1])
        /\ (Returned(1) /\ res[1].err = nil) =>
              /\ Live.data = pre[1].served /\ pre[1].served \in CompleteBinaries
              /\ dir.updatePath = 0

\* C19 witness: an Update that found the partial download of a killed install
\* of version 2 has installed version 3
C19_Witness ==
    /\ Returned(1)
    /\ res[1].err = nil
    /\ HadLeftover
    /\ Len(pre[1].leftover[1]) = 1 /\ Len(pre[1].leftover[1]) < ArtLen
    /\ pre[1].leftover[1][1] = 2
    /\ pre[1].served = Artifact(3)
    /\ Live.data = Artifact(3)

----------------------------------------------------------------------------
(* Checks after an install (SpecBoth) *)

\* C20: a successful Update leaves Path with the time of the download as its
\* modification time, so that, the artifact not having been published again
\* since, every later check that goes through returns Diff = Last-Modified
\* minus that time and Outdated() = FALSE.
C20_UpdateCuresStaleness ==
    [][/\ installed' # installed =>
             /\ FileAt(dir', inodes', "Path").mtime = now
             /\ remote.modified <= now
       /\ (CompletedCheck /\ installed # <<>>) =>
             /\ res'[1].metadata.Diff = remote.modified - Live.mtime
             /\ ~Outdated(res'[1].metadata)]_vars

\* C20 witness: a check that went through after version 2 was installed over
\* the old binary, later than the artifact's Last-Modified
C20_Witness ==
    /\ installed = <<Artifact(OldVersion)>>
    /\ Live.data = Artifact(2)
    /\ res[1].op = "MaybeCheckForUpdate" /\ res[1].err = nil /\ res[1].head
    /\ heads # <<>> /\ heads[1].t = now /\ heads[1].completed
    /\ res[1].metadata = [Updated |-> remote.modified, Diff |-> remote.modified - Live.mtime]
    /\ res[1].metadata.Diff < 0
    /\ ~Outdated(res[1].metadata)

====
